---- MODULE Spec2Model ----
(***************************************************************************)
(* A model of gbe_fork_helper: the release updater (github.UpdateGBE),     *)
(* the file replacer (util.BackupAndReplace / util.CopyFile) and the       *)
(* patch applier (gbe.ApplyGBE).  Each subsystem has its own               *)
(* specification over the shared variables:                                *)
(*   SpecUpdate   runs of UpdateGBE from a fresh cache root                *)
(*   SpecMarker   the same runs, the marker file pre-existing with any     *)
(*                content a user or an earlier tool may have left          *)
(*   SpecReplace  sequences of BackupAndReplace calls                      *)
(*   SpecApply    runs of ApplyGBE over a game directory                   *)
(*   SpecExtract  calls of DownloadAndExtract on one destination directory *)
(***************************************************************************)
EXTENDS Integers, Sequences, FiniteSets, TLC

VARIABLES
    timestampFile,   \* content of <gbeHome>/.gbe_timestamp, or NoFile
    linux_release,   \* state of the directory <gbeHome>/linux_release
    win_release,     \* state of the directory <gbeHome>/win_release
    upd,             \* the activation of UpdateGBE: position, locals, result
    fs,              \* file system seen by util/gbe: names (path -> inode)
                     \* and data (inode -> bytes)
    clock,           \* wall clock, whole seconds since midnight
    bar,             \* the activation of BackupAndReplace
    app,             \* the activation of ApplyGBE
    disk,            \* directory tree seen by DownloadAndExtract:
                     \* path -> directory or file with its bytes
    dae              \* the activation of DownloadAndExtract

vars == <<timestampFile, linux_release, win_release, upd,
          fs, clock, bar, app, disk, dae>>

updVars == <<timestampFile, linux_release, win_release, upd>>
fsVars  == <<fs, clock>>
extVars == <<disk, dae>>

NoFile == [exists |-> FALSE]
nil    == "nil"

----------------------------------------------------------------------------
(* Bounds *)

MaxRuns  == 2        \* UpdateGBE invocations per behaviour
MaxCalls == 2        \* BackupAndReplace calls per behaviour
MaxClock == 1        \* seconds the wall clock may advance
MaxApplies == 1      \* ApplyGBE invocations per behaviour
MaxExtracts == 3     \* DownloadAndExtract calls per behaviour

----------------------------------------------------------------------------
(* Text helpers: Go's strings.HasSuffix, and zero-padded integers as      *)
(* printed by the time package.                                            *)

HasSuffix(s, suffix) ==
    /\ Len(s) >= Len(suffix)
    /\ SubSeq(s, Len(s) - Len(suffix) + 1, Len(s)) = suffix

\* strings.Contains
Contains(s, sub) ==
    \E i \in 1..(Len(s) - Len(sub) + 1) : SubSeq(s, i, i + Len(sub) - 1) = sub

Pad2(n) == IF n < 10 THEN "0" \o ToString(n) ELSE ToString(n)

Pad4(n) ==
    IF n < 10 THEN "000" \o ToString(n)
    ELSE IF n < 100 THEN "00" \o ToString(n)
    ELSE IF n < 1000 THEN "0" \o ToString(n)
    ELSE ToString(n)

Digits == {"0", "1", "2", "3", "4", "5", "6", "7", "8", "9"}

DigitVal(c) ==
    CASE c = "0" -> 0 [] c = "1" -> 1 [] c = "2" -> 2 [] c = "3" -> 3
      [] c = "4" -> 4 [] c = "5" -> 5 [] c = "6" -> 6 [] c = "7" -> 7
      [] c = "8" -> 8 [] c = "9" -> 9

IsDigits(s) == \A i \in 1..Len(s) : SubSeq(s, i, i) \in Digits

RECURSIVE Atoi(_)
Atoi(s) ==
    IF Len(s) = 0 THEN 0
    ELSE Atoi(SubSeq(s, 1, Len(s) - 1)) * 10
           + DigitVal(SubSeq(s, Len(s), Len(s)))

----------------------------------------------------------------------------
(* config.Release.UpdatedAt is a time.Time.  encoding/json decodes the    *)
(* feed's "updated_at" text (RFC 3339, UTC: the form GitHub serves) into   *)
(* a time value; Time.String() prints it in Go's own layout                *)
(* "2006-01-02 15:04:05.999999999 -0700 MST".                              *)

InvalidTime == [valid |-> FALSE]

\* time.Time.UnmarshalJSON on "YYYY-MM-DDTHH:MM:SSZ"
UnmarshalTime(s) ==
    IF /\ Len(s) = 20
       /\ IsDigits(SubSeq(s, 1, 4))   /\ SubSeq(s, 5, 5) = "-"
       /\ IsDigits(SubSeq(s, 6, 7))   /\ SubSeq(s, 8, 8) = "-"
       /\ IsDigits(SubSeq(s, 9, 10))  /\ SubSeq(s, 11, 11) = "T"
       /\ IsDigits(SubSeq(s, 12, 13)) /\ SubSeq(s, 14, 14) = ":"
       /\ IsDigits(SubSeq(s, 15, 16)) /\ SubSeq(s, 17, 17) = ":"
       /\ IsDigits(SubSeq(s, 18, 19)) /\ SubSeq(s, 20, 20) = "Z"
    THEN [valid |-> TRUE,
          year  |-> Atoi(SubSeq(s, 1, 4)),   month |-> Atoi(SubSeq(s, 6, 7)),
          day   |-> Atoi(SubSeq(s, 9, 10)),  hour  |-> Atoi(SubSeq(s, 12, 13)),
          min   |-> Atoi(SubSeq(s, 15, 16)), sec   |-> Atoi(SubSeq(s, 18, 19))]
    ELSE InvalidTime

\* release.UpdatedAt.String() for a UTC time without fractional seconds
TimeString(t) ==
    Pad4(t.year) \o "-" \o Pad2(t.month) \o "-" \o Pad2(t.day) \o " "
      \o Pad2(t.hour) \o ":" \o Pad2(t.min) \o ":" \o Pad2(t.sec)
      \o " +0000 UTC"

----------------------------------------------------------------------------
(* The release feed (config.GithubAPIURL) and its assets.                  *)

LinuxSuffix == "linux-release.tar.bz2"
WinSuffix   == "win-release.7z"

UpdatedAtTexts == {"2024-01-01T00:00:00Z", "2024-02-01T00:00:00Z"}

AssetURL(tag, name) == "https://dl/" \o tag \o "/" \o name

Asset(tag, name) == [Name |-> name, BrowserDownloadURL |-> AssetURL(tag, name)]

\* The asset lists a release may carry: both archives (in either order and
\* beside unrelated assets), only one of them, or neither.
AssetLists(tag) ==
    { << Asset(tag, "emu-linux-release.tar.bz2"), Asset(tag, "emu-win-release.7z") >>,
      << Asset(tag, "emu-win-release.7z"), Asset(tag, "notes.txt"),
         Asset(tag, "emu-linux-release.tar.bz2") >>,
      << Asset(tag, "emu-linux-release.tar.bz2") >>,
      << Asset(tag, "emu-win-release.7z") >>,
      << Asset(tag, "notes.txt") >> }

\* JSON documents the endpoint may serve (the fields config.Release reads)
Feeds ==
    UNION { { [updated_at |-> t, assets |-> a] : a \in AssetLists(t) } :
                t \in UpdatedAtTexts }

\* json.NewDecoder(resp.Body).Decode(&release)
DecodeRelease(feed) ==
    [UpdatedAt |-> UnmarshalTime(feed.updated_at), Assets |-> feed.assets]

\* for _, asset := range release.Assets { if strings.HasSuffix(...) { url = ...; break } }
FindURL(assets, suffix) ==
    LET hits == { i \in 1..Len(assets) : HasSuffix(assets[i].Name, suffix) }
    IN  IF hits = {} THEN ""
        ELSE assets[CHOOSE i \in hits : \A j \in hits : i <= j].BrowserDownloadURL

----------------------------------------------------------------------------
(* util.DownloadAndExtract as UpdateGBE sees it: a directory is absent,    *)
(* empty, partially filled or holds the complete tree of one archive.      *)

AbsentDir     == [tree |-> "absent",  from |-> ""]
EmptyDir      == [tree |-> "empty",   from |-> ""]
PartialDir(u) == [tree |-> "partial", from |-> u]
FullDir(u)    == [tree |-> "full",    from |-> u]

\* The results of one call: the error returned and the directory left behind.
DownloadAndExtract(url, destDir, format) ==
    \* http.Get fails: nothing has been touched
    { [err |-> "http.Get", dir |-> destDir] }
    \* os.RemoveAll fails, having removed none or some of the old tree
    \cup (IF destDir.tree \in {"partial", "full"}
          THEN { [err |-> "os.RemoveAll", dir |-> d] :
                     d \in {destDir, PartialDir(destDir.from)} }
          ELSE {})
    \* os.MkdirAll fails after the old tree is gone
    \cup { [err |-> "os.MkdirAll", dir |-> AbsentDir] }
    \cup (IF format \in {"tar.bz2", "7z"}
          THEN \* the stream, the archiver or the hoisting fails part-way
               { [err |-> "extract", dir |-> d] : d \in {EmptyDir, PartialDir(url)} }
               \cup { [err |-> nil, dir |-> FullDir(url)] }
          ELSE { [err |-> "unsupported archive format", dir |-> EmptyDir] })

----------------------------------------------------------------------------
(* github.UpdateGBE, one action per step of the function.                  *)

UpdIdle ==
    [pc |-> "idle", runs |-> 0, feedText |-> "", release |-> DecodeRelease([updated_at |-> "", assets |-> <<>>]),
     linuxURL |-> "", winURL |-> "", err |-> nil, downloads |-> 0,
     linuxOk |-> FALSE, winOk |-> FALSE, readOk |-> FALSE,
     renderFailed |-> FALSE,
     prev |-> [feedText |-> "", wrote |-> FALSE],
     before |-> [timestampFile |-> NoFile, linux_release |-> AbsentDir,
                 win_release |-> AbsentDir]]

UpdReturn(u, e) == [u EXCEPT !.pc = "returned", !.err = e]

\* http.Get(config.GithubAPIURL) and the JSON decoding (lines 24-33)
UpdateGBE_Fetch ==
    /\ upd.pc \in {"idle", "returned"}
    /\ upd.runs < MaxRuns
    /\ LET u0 == [UpdIdle EXCEPT !.runs = upd.runs + 1,
                    !.prev = [feedText |-> upd.feedText,
                              wrote |-> upd.pc = "returned" /\ upd.err = nil
                                          /\ upd.linuxOk /\ upd.winOk],
                    !.before = [timestampFile |-> timestampFile,
                                linux_release |-> linux_release,
                                win_release   |-> win_release]]
       IN  \/ upd' = UpdReturn(u0, "failed to fetch release information")
           \/ upd' = UpdReturn(u0, "failed to decode JSON")
           \/ \E feed \in Feeds :
                upd' = [u0 EXCEPT !.pc = "check", !.feedText = feed.updated_at,
                                  !.release = DecodeRelease(feed)]
    /\ UNCHANGED <<timestampFile, linux_release, win_release, fsVars, bar, app, extVars>>

\* t.Format(time.RFC3339) for a UTC time
TimeRFC3339(t) ==
    Pad4(t.year) \o "-" \o Pad2(t.month) \o "-" \o Pad2(t.day) \o "T"
      \o Pad2(t.hour) \o ":" \o Pad2(t.min) \o ":" \o Pad2(t.sec) \o "Z"

\* Mutant: the marker is compared with the RFC 3339 form of the time, while
\* it is written with String()
UpToDate_RFC3339(content, release) ==
    /\ content.exists
    /\ content.data = TimeRFC3339(release.UpdatedAt)

\* The marker test (lines 35-41): exact string equality with UpdatedAt.String()
UpToDate(content, release) ==
    /\ content.exists
    /\ content.data = TimeString(release.UpdatedAt)

UpdateGBE_Check ==
    /\ upd.pc = "check"
    /\ \/ /\ UpToDate(timestampFile, upd.release)
          /\ upd' = UpdReturn([upd EXCEPT !.readOk = TRUE], nil)
       \/ \* os.ReadFile fails on an existing marker
          /\ timestampFile.exists
          /\ upd' = [upd EXCEPT !.pc = "render"]
       \/ /\ ~UpToDate(timestampFile, upd.release)
          /\ upd' = [upd EXCEPT !.pc = "render", !.readOk = timestampFile.exists]
    /\ UNCHANGED <<timestampFile, linux_release, win_release, fsVars, bar, app, extVars>>

\* renderer.Render(release.Body) (lines 44-56): an error is printed and the
\* function returns nil
UpdateGBE_Render ==
    /\ upd.pc = "render"
    /\ \/ upd' = UpdReturn([upd EXCEPT !.renderFailed = TRUE], nil)
       \/ upd' = [upd EXCEPT !.pc = "mkdir"]
    /\ UNCHANGED <<timestampFile, linux_release, win_release, fsVars, bar, app, extVars>>

\* os.MkdirAll(gbeHome, 0755) (lines 58-60)
UpdateGBE_MkdirAll ==
    /\ upd.pc = "mkdir"
    /\ \/ upd' = UpdReturn(upd, "failed to create directory")
       \/ upd' = [upd EXCEPT !.pc = "findLinux"]
    /\ UNCHANGED <<timestampFile, linux_release, win_release, fsVars, bar, app, extVars>>

\* lines 62-72
UpdateGBE_FindLinux ==
    /\ upd.pc = "findLinux"
    /\ LET url == FindURL(upd.release.Assets, LinuxSuffix)
       IN  upd' = IF url = ""
                  THEN UpdReturn(upd, "failed to find Linux download URL")
                  ELSE [upd EXCEPT !.pc = "extractLinux", !.linuxURL = url]
    /\ UNCHANGED <<timestampFile, linux_release, win_release, fsVars, bar, app, extVars>>

\* lines 74-78
UpdateGBE_ExtractLinux ==
    /\ upd.pc = "extractLinux"
    /\ \E r \in DownloadAndExtract(upd.linuxURL, linux_release, "tar.bz2") :
         /\ linux_release' = r.dir
         /\ upd' = IF r.err # nil
                   THEN [UpdReturn(upd, "failed to update Linux release")
                            EXCEPT !.downloads = @ + 1]
                   ELSE [upd EXCEPT !.pc = "findWin", !.linuxOk = TRUE,
                                    !.downloads = @ + 1]
    /\ UNCHANGED <<timestampFile, win_release, fsVars, bar, app, extVars>>

\* lines 80-90
UpdateGBE_FindWin ==
    /\ upd.pc = "findWin"
    /\ LET url == FindURL(upd.release.Assets, WinSuffix)
       IN  upd' = IF url = ""
                  THEN UpdReturn(upd, "failed to find Windows download URL")
                  ELSE [upd EXCEPT !.pc = "extractWin", !.winURL = url]
    /\ UNCHANGED <<timestampFile, linux_release, win_release, fsVars, bar, app, extVars>>

\* Mutant: the error of the Windows extraction is not returned
UpdateGBE_ExtractWin_Continue ==
    /\ upd.pc = "extractWin"
    /\ \E r \in DownloadAndExtract(upd.winURL, win_release, "7z") :
         /\ win_release' = r.dir
         /\ upd' = [upd EXCEPT !.pc = "writeMarker", !.winOk = (r.err = nil),
                               !.downloads = @ + 1]
    /\ UNCHANGED <<timestampFile, linux_release, fsVars, bar, app, extVars>>

\* lines 92-96
UpdateGBE_ExtractWin ==
    /\ upd.pc = "extractWin"
    /\ \E r \in DownloadAndExtract(upd.winURL, win_release, "7z") :
         /\ win_release' = r.dir
         /\ upd' = IF r.err # nil
                   THEN [UpdReturn(upd, "failed to update Windows release")
                            EXCEPT !.downloads = @ + 1]
                   ELSE [upd EXCEPT !.pc = "writeMarker", !.winOk = TRUE,
                                    !.downloads = @ + 1]
    /\ UNCHANGED <<timestampFile, linux_release, fsVars, bar, app, extVars>>

\* Mutant: the marker is written in RFC 3339 form while it is compared with
\* String()
UpdateGBE_WriteMarker_RFC3339 ==
    /\ upd.pc = "writeMarker"
    /\ \/ /\ timestampFile' = [exists |-> TRUE, data |-> TimeRFC3339(upd.release.UpdatedAt)]
          /\ upd' = UpdReturn(upd, nil)
       \/ /\ timestampFile' \in {timestampFile, [exists |-> TRUE, data |-> ""]}
          /\ upd' = UpdReturn(upd, "failed to write timestamp file")
    /\ UNCHANGED <<linux_release, win_release, fsVars, bar, app, extVars>>

\* os.WriteFile(timestampFile, []byte(release.UpdatedAt.String()), 0644)
\* (lines 98-103); a failing write leaves the file as it was or truncated
UpdateGBE_WriteMarker ==
    /\ upd.pc = "writeMarker"
    /\ \/ /\ timestampFile' = [exists |-> TRUE, data |-> TimeString(upd.release.UpdatedAt)]
          /\ upd' = UpdReturn(upd, nil)
       \/ /\ timestampFile' \in {timestampFile, [exists |-> TRUE, data |-> ""]}
          /\ upd' = UpdReturn(upd, "failed to write timestamp file")
    /\ UNCHANGED <<linux_release, win_release, fsVars, bar, app, extVars>>

UpdateGBE ==
    \/ UpdateGBE_Fetch
    \/ UpdateGBE_Check
    \/ UpdateGBE_Render
    \/ UpdateGBE_MkdirAll
    \/ UpdateGBE_FindLinux
    \/ UpdateGBE_ExtractLinux
    \/ UpdateGBE_FindWin
    \/ UpdateGBE_ExtractWin
    \/ UpdateGBE_WriteMarker

----------------------------------------------------------------------------
(* The file system under util and gbe: regular files only.  A name is      *)
(* bound to an inode and several names may share one (os.Link).  Each      *)
(* primitive yields the set of its possible results: the error and the     *)
(* file system left behind.                                                *)

EmptyFS == [names |-> [p \in {} |-> 0], data |-> [i \in {} |-> ""]]

Exists(F, p) == p \in DOMAIN F.names

ReadFile(F, p) == F.data[F.names[p]]

\* inodes no name refers to any more are freed
Collect(names, data) ==
    [i \in {names[p] : p \in DOMAIN names} |-> data[i]]

NewInode(F) ==
    CHOOSE i \in 1..(Cardinality(DOMAIN F.data) + 1) :
        /\ i \notin DOMAIN F.data
        /\ \A j \in 1..(i - 1) : j \in DOMAIN F.data

\* a file named p with the given bytes on a fresh inode (test fixtures, Init)
WithFile(F, p, bytes) ==
    LET i == NewInode(F)
        n == [q \in DOMAIN F.names \cup {p} |-> IF q = p THEN i ELSE F.names[q]]
        d == [j \in DOMAIN F.data \cup {i} |-> IF j = i THEN bytes ELSE F.data[j]]
    IN  [names |-> n, data |-> Collect(n, d)]

Prefixes(bytes) == { SubSeq(bytes, 1, k) : k \in 0..(Len(bytes) - 1) }

\* os.Stat(p): nil, a not-exist error, or another error (permissions, I/O)
Stat(F, p) ==
    (IF Exists(F, p) THEN {nil} ELSE {"not exist"}) \cup {"stat error"}

\* os.Rename(old, new): replaces new when it exists
Rename(F, old, new) ==
    { [err |-> "rename", fs |-> F] }
    \cup (IF ~Exists(F, old) THEN {}
          ELSE IF old = new THEN { [err |-> nil, fs |-> F] }
          ELSE LET n == [q \in (DOMAIN F.names \ {old}) \cup {new} |->
                            IF q = new THEN F.names[old] ELSE F.names[q]]
               IN  { [err |-> nil, fs |-> [names |-> n, data |-> Collect(n, F.data)]] })

\* os.Link(src, dest): fails when src is missing or dest exists, and across
\* file systems
Link(F, src, dest) ==
    { [err |-> "link", fs |-> F] }
    \cup (IF ~Exists(F, src) \/ Exists(F, dest) THEN {}
          ELSE LET n == [q \in DOMAIN F.names \cup {dest} |->
                            IF q = dest THEN F.names[src] ELSE F.names[q]]
               IN  { [err |-> nil, fs |-> [names |-> n, data |-> F.data]] })

\* os.Create(p): truncates the file p names, or makes an empty one
Create(F, p) ==
    IF Exists(F, p) THEN [F EXCEPT !.data[F.names[p]] = ""]
    ELSE WithFile(F, p, "")

\* Mutant: the error of io.Copy is dropped
CopyFile_IgnoreCopyError(F, src, dest) ==
    { [err |-> "open", fs |-> F] }
    \cup (IF ~Exists(F, src) THEN {}
          ELSE LET F1    == Create(F, dest)
                   bytes == ReadFile(F1, src)
               IN  { [err |-> "create", fs |-> F] }
                   \cup { [err |-> nil,
                           fs  |-> [F1 EXCEPT !.data[F1.names[dest]] = b]] :
                              b \in Prefixes(bytes) \cup {bytes} })

\* util.CopyFile(src, dest)
CopyFile(F, src, dest) ==
    { [err |-> "open", fs |-> F] }
    \cup (IF ~Exists(F, src) THEN {}
          ELSE LET F1    == Create(F, dest)
                   bytes == ReadFile(F1, src)
               IN  { [err |-> "create", fs |-> F] }
                   \cup { [err |-> "copy",
                           fs  |-> [F1 EXCEPT !.data[F1.names[dest]] = b]] :
                              b \in Prefixes(bytes) }
                   \cup { [err |-> nil,
                           fs  |-> [F1 EXCEPT !.data[F1.names[dest]] = bytes]] })

\* time.Now().Format("20060102-150405"), the clock counting seconds of one day
FormatTimestamp(now) ==
    "20240101-" \o Pad2(now \div 3600) \o Pad2((now \div 60) % 60) \o Pad2(now % 60)

\* fmt.Sprintf("%s.%s.ORIGINAL", dest, timestamp)
BackupPath(dest, timestamp) == dest \o "." \o timestamp \o ".ORIGINAL"

HasPrefix(s, prefix) ==
    /\ Len(s) >= Len(prefix)
    /\ SubSeq(s, 1, Len(prefix)) = prefix

\* the files a directory listing shows as backups of dest
Backups(F, dest) ==
    { p \in DOMAIN F.names : HasPrefix(p, dest \o ".") /\ HasSuffix(p, ".ORIGINAL") }

----------------------------------------------------------------------------
(* util.BackupAndReplace(src, dest): first as the set of results of a      *)
(* whole call (what gbe.ApplyGBE sees), then step by step.                 *)

\* lines 62-70: the hard link, and the copy when the link fails
Substitute(F, src, dest) ==
    UNION { IF l.err = nil THEN { [err |-> nil, fs |-> l.fs] }
            ELSE { [err |-> IF c.err = nil THEN nil ELSE "failed to copy",
                    fs  |-> c.fs] : c \in CopyFile(l.fs, src, dest) } :
            l \in Link(F, src, dest) }

BackupAndReplace(F, src, dest, now) ==
    LET backupPath == BackupPath(dest, FormatTimestamp(now))
    IN  UNION {
          IF s = nil
          THEN UNION { IF r.err # nil
                       THEN { [err |-> "failed to backup", fs |-> r.fs] }
                       ELSE Substitute(r.fs, src, dest) :
                       r \in Rename(F, dest, backupPath) }
          ELSE IF s # "not exist"
          THEN { [err |-> "failed to stat destination file", fs |-> F] }
          ELSE Substitute(F, src, dest) :
          s \in Stat(F, dest) }

\* The paths the calls are made on
SrcPaths  == {"cache/steam_api.dll", "cache/steamclient.dll", "cache/missing.dll"}
DestPaths == {"game/steam_api.dll", "game/new.dll"}

BarIdle ==
    [pc |-> "idle", calls |-> 0, src |-> "", dest |-> "", timestamp |-> "",
     backupPath |-> "", err |-> nil, statFailed |-> FALSE,
     linkFailed |-> FALSE, copyFailed |-> FALSE, before |-> EmptyFS]

BarReturn(b, e) == [b EXCEPT !.pc = "returned", !.err = e]

\* entry, line 50: the timestamp is taken once per call
BackupAndReplace_Call(src, dest) ==
    /\ bar.pc \in {"idle", "returned"}
    /\ bar.calls < MaxCalls
    /\ bar' = [BarIdle EXCEPT !.pc = "stat", !.calls = bar.calls + 1,
                              !.src = src, !.dest = dest,
                              !.timestamp = FormatTimestamp(clock),
                              !.before = fs]
    /\ UNCHANGED <<updVars, fsVars, app, extVars>>

\* Mutant: an existing destination is not moved aside
BackupAndReplace_Stat_NoBackup ==
    /\ bar.pc = "stat"
    /\ \E s \in Stat(fs, bar.dest) :
         bar' = IF s = nil \/ s = "not exist"
                THEN [bar EXCEPT !.pc = "link"]
                ELSE BarReturn([bar EXCEPT !.statFailed = TRUE],
                               "failed to stat destination file")
    /\ UNCHANGED <<updVars, fsVars, app, extVars>>

\* Mutant: the rename is attempted whether or not the destination exists
BackupAndReplace_Stat_AlwaysRename ==
    /\ bar.pc = "stat"
    /\ bar' = [bar EXCEPT !.pc = "rename",
                          !.backupPath = BackupPath(bar.dest, bar.timestamp)]
    /\ UNCHANGED <<updVars, fsVars, app, extVars>>

\* lines 52-60: os.Stat(dest)
BackupAndReplace_Stat ==
    /\ bar.pc = "stat"
    /\ \E s \in Stat(fs, bar.dest) :
         bar' = IF s = nil
                THEN [bar EXCEPT !.pc = "rename",
                                 !.backupPath = BackupPath(bar.dest, bar.timestamp)]
                ELSE IF s # "not exist"
                THEN BarReturn([bar EXCEPT !.statFailed = TRUE],
                               "failed to stat destination file")
                ELSE [bar EXCEPT !.pc = "link"]
    /\ UNCHANGED <<updVars, fsVars, app, extVars>>

\* lines 54-57: os.Rename(dest, backupPath)
BackupAndReplace_Rename ==
    /\ bar.pc = "rename"
    /\ \E r \in Rename(fs, bar.dest, bar.backupPath) :
         /\ fs' = r.fs
         /\ bar' = IF r.err # nil THEN BarReturn(bar, "failed to backup")
                   ELSE [bar EXCEPT !.pc = "link"]
    /\ UNCHANGED <<updVars, clock, app, extVars>>

\* line 62: os.Link(src, dest)
BackupAndReplace_Link ==
    /\ bar.pc = "link"
    /\ \E l \in Link(fs, bar.src, bar.dest) :
         /\ fs' = l.fs
         /\ bar' = IF l.err = nil THEN BarReturn(bar, nil)
                   ELSE [bar EXCEPT !.pc = "copy", !.linkFailed = TRUE]
    /\ UNCHANGED <<updVars, clock, app, extVars>>

\* lines 64-66: the fallback util.CopyFile(src, dest)
BackupAndReplace_CopyFile ==
    /\ bar.pc = "copy"
    /\ \E c \in CopyFile(fs, bar.src, bar.dest) :
         /\ fs' = c.fs
         /\ bar' = IF c.err = nil THEN BarReturn(bar, nil)
                   ELSE BarReturn([bar EXCEPT !.copyFailed = TRUE], "failed to copy")
    /\ UNCHANGED <<updVars, clock, app, extVars>>

\* the wall clock passes a second boundary
Tick ==
    /\ clock < MaxClock
    /\ clock' = clock + 1
    /\ UNCHANGED <<updVars, fs, bar, app, extVars>>

----------------------------------------------------------------------------
(* config.PlatformConfig and the paths gbe.ApplyGBE builds from it.        *)

GbeDir == ".local/share/gbe_fork"

PlatformConfig ==
    [linux |-> [Subdir |-> "linux_release", Target |-> "libsteam_api.so",
                Additional |-> "steamclient.so",
                Generator |-> "generate_interfaces_x64", Arch |-> "64"],
     win64 |-> [Subdir |-> "win_release", Target |-> "steam_api64.dll",
                Additional |-> "steamclient64.dll",
                Generator |-> "generate_interfaces_x64.exe", Arch |-> "64"],
     win32 |-> [Subdir |-> "win_release", Target |-> "steam_api.dll",
                Additional |-> "steamclient.dll",
                Generator |-> "generate_interfaces_x32.exe", Arch |-> "32"]]

\* filepath.Join of clean components
Join(a, b) == IF a = "." THEN b ELSE a \o "/" \o b

RECURSIVE LastSlash(_, _)
LastSlash(p, i) ==
    IF i = 0 THEN 0
    ELSE IF SubSeq(p, i, i) = "/" THEN i
    ELSE LastSlash(p, i - 1)

\* filepath.Base and filepath.Dir of a clean path
Base(p) == SubSeq(p, LastSlash(p, Len(p)) + 1, Len(p))
Dir(p)  == LET k == LastSlash(p, Len(p))
           IN  IF k = 0 THEN "." ELSE SubSeq(p, 1, k - 1)

HomeDir == "/home/user"

GbePath(cfg) ==
    Join(Join(Join(Join(HomeDir, GbeDir), cfg.Subdir), "experimental"), "x" \o cfg.Arch)

SourceFile(cfg) == Join(GbePath(cfg), cfg.Target)

AdditionalSource(cfg) == Join(GbePath(cfg), cfg.Additional)

GeneratorPath(cfg) ==
    Join(Join(Join(Join(Join(HomeDir, GbeDir), cfg.Subdir), "tools"),
              "generate_interfaces"), cfg.Generator)

\* The directories of the game tree under ".", in the lexical order
\* filepath.WalkDir visits them
GameDirs == <<"a", "b">>

\* filepath.WalkDir(".", ...) collecting the regular files named target
RECURSIVE WalkDir(_, _, _)
WalkDir(F, target, k) ==
    IF k > Len(GameDirs) THEN << >>
    ELSE (IF Exists(F, Join(GameDirs[k], target))
          THEN << Join(GameDirs[k], target) >> ELSE << >>)
         \o WalkDir(F, target, k + 1)

\* The digest of util.GetHash: fixed-length, so many-to-one.  Here the
\* digest keeps the first byte only, and contents that share it collide.
MD4(bytes) == IF Len(bytes) = 0 THEN "31d6" ELSE SubSeq(bytes, 1, 1)

\* util.GetHash(filePath): os.ReadFile may fail
GetHash(F, p) ==
    { [err |-> "read", hash |-> ""] }
    \cup (IF Exists(F, p) THEN { [err |-> nil, hash |-> MD4(ReadFile(F, p))] }
          ELSE {})

\* strings.Join(validPlatforms, ", ") over one iteration order of the map
RECURSIVE JoinComma(_)
JoinComma(seq) ==
    IF Len(seq) = 0 THEN ""
    ELSE IF Len(seq) = 1 THEN seq[1]
    ELSE seq[1] \o ", " \o JoinComma(Tail(seq))

Orders(S) ==
    { q \in [1..Cardinality(S) -> S] : \A x \in S : \E i \in DOMAIN q : q[i] = x }

\* Mutant: the list of valid platforms loses its first key
InvalidPlatformErrors_Partial(platform) ==
    { "invalid platform: '" \o platform \o "'. Valid platforms: " \o JoinComma(Tail(q)) :
        q \in Orders(DOMAIN PlatformConfig) }

\* lines 66-74: the keys are collected in the map's iteration order, which
\* Go leaves unspecified
InvalidPlatformErrors(platform) ==
    { "invalid platform: '" \o platform \o "'. Valid platforms: " \o JoinComma(q) :
        q \in Orders(DOMAIN PlatformConfig) }

----------------------------------------------------------------------------
(* gbe.ApplyGBE: the body of the loop over targetFiles (lines 110-157)     *)
(* for one candidate, as the set of its results.                           *)

InterfacesFile(file) == Join(Dir(file), "steam_interfaces.txt")

\* lines 129-137: the companion, replaced when the cache holds one
ReplaceAdditional(F, cfg, file, now) ==
    IF cfg.Additional = "" THEN { [fs |-> F, companion |-> "none"] }
    ELSE UNION {
           IF s = nil
           THEN { [fs |-> r.fs,
                   companion |-> IF r.err = nil THEN "replaced" ELSE "failed"] :
                  r \in BackupAndReplace(F, AdditionalSource(cfg),
                                         Join(Dir(file), cfg.Additional), now) }
           ELSE { [fs |-> F, companion |-> "skipped"] } :
           s \in Stat(F, AdditionalSource(cfg)) }

\* lines 143-156: the generator, run in the candidate's directory when the
\* cache holds it; it writes its interface list there when it succeeds
RunGenerator(F, cfg, file) ==
    UNION {
      IF s = nil
      THEN { [fs |-> WithFile(F, InterfacesFile(file), "interfaces"),
              generator |-> "ok"],
             [fs |-> F, generator |-> "failed"] }
      ELSE { [fs |-> F, generator |-> "not run"] } :
      s \in Stat(F, GeneratorPath(cfg)) }

Entry(file, outcome, companion, generator) ==
    [file |-> file, outcome |-> outcome, companion |-> companion,
     generator |-> generator]

\* lines 129-156 after a successful replacement.  os.UserHomeDir (line 139)
\* reads the environment the process started with, so it answers as it did
\* at line 76.
AfterReplace(F, cfg, file, now, homeOk) ==
    UNION {
      IF ~homeOk
      THEN { [fs |-> a.fs, abort |-> "failed to get user home directory",
              entry |-> Entry(file, "replaced", a.companion, "not run")] }
      ELSE { [fs |-> g.fs, abort |-> nil,
              entry |-> Entry(file, "replaced", a.companion, g.generator)] :
             g \in RunGenerator(a.fs, cfg, file) } :
      a \in ReplaceAdditional(F, cfg, file, now) }

\* Mutant: a replacement that fails ends the whole operation
ReplaceCandidate_Abort(F, cfg, file, now, homeOk) ==
    UNION {
      IF r.err # nil
      THEN { [fs |-> r.fs, abort |-> "failed to replace file",
              entry |-> Entry(file, "replace failed", "untouched", "not run")] }
      ELSE AfterReplace(r.fs, cfg, file, now, homeOk) :
      r \in BackupAndReplace(F, SourceFile(cfg), file, now) }

\* lines 113-127: a replacement that fails is logged and the loop goes on
ReplaceCandidate(F, cfg, file, now, homeOk) ==
    UNION {
      IF r.err # nil
      THEN { [fs |-> r.fs, abort |-> nil,
              entry |-> Entry(file, "replace failed", "untouched", "not run")] }
      ELSE AfterReplace(r.fs, cfg, file, now, homeOk) :
      r \in BackupAndReplace(F, SourceFile(cfg), file, now) }

\* Mutant: the digests are not compared
ProcessCandidate_NoSkip(F, cfg, file, sourceHash, now, homeOk) ==
    UNION {
      IF h.err # nil
      THEN { [fs |-> F, abort |-> nil,
              entry |-> Entry(file, "hash error", "untouched", "not run")] }
      ELSE ReplaceCandidate(F, cfg, file, now, homeOk) :
      h \in GetHash(F, file) }

\* lines 110-127
ProcessCandidate(F, cfg, file, sourceHash, now, homeOk) ==
    UNION {
      IF h.err # nil
      THEN { [fs |-> F, abort |-> nil,
              entry |-> Entry(file, "hash error", "untouched", "not run")] }
      ELSE IF h.hash = sourceHash
      THEN { [fs |-> F, abort |-> nil,
              entry |-> Entry(file, "up-to-date", "untouched", "not run")] }
      ELSE ReplaceCandidate(F, cfg, file, now, homeOk) :
      h \in GetHash(F, file) }

----------------------------------------------------------------------------
(* gbe.ApplyGBE, step by step.                                             *)

PlatformArgs == {"linux", "win64", "win32", "macos"}

AppIdle ==
    [pc |-> "idle", runs |-> 0, platform |-> "", homeOk |-> TRUE,
     targetFiles |-> << >>, hashed |-> FALSE, sourceHash |-> "", i |-> 1,
     err |-> nil,
     log |-> << >>, before |-> EmptyFS]

AppReturn(a, e) == [a EXCEPT !.pc = "returned", !.err = e]

\* lines 66-98: the platform lookup, the home directory, the walk
ApplyGBE_Call(platform) ==
    /\ app.pc \in {"idle", "returned"}
    /\ app.runs < MaxApplies
    /\ LET a0 == [AppIdle EXCEPT !.runs = app.runs + 1, !.platform = platform,
                                 !.before = fs]
       IN  IF platform \notin DOMAIN PlatformConfig
           THEN \E e \in InvalidPlatformErrors(platform) : app' = AppReturn(a0, e)
           ELSE \/ app' = AppReturn([a0 EXCEPT !.homeOk = FALSE],
                                    "failed to get user home directory")
                \/ app' = AppReturn(a0, "failed to search for files")
                \/ app' = [a0 EXCEPT !.pc = "source",
                              !.targetFiles =
                                  WalkDir(fs, PlatformConfig[platform].Target, 1)]
    /\ UNCHANGED <<updVars, fsVars, bar, extVars>>

\* lines 100-108: the cached source and its digest
ApplyGBE_Source ==
    /\ app.pc = "source"
    /\ LET sourceFile == SourceFile(PlatformConfig[app.platform])
       IN  \E s \in Stat(fs, sourceFile) :
             IF s = "not exist"
             THEN app' = AppReturn(app, "source file not found")
             ELSE \E h \in GetHash(fs, sourceFile) :
                    app' = IF h.err # nil
                           THEN AppReturn(app, "failed to get hash of source file")
                           ELSE [app EXCEPT !.pc = "loop", !.hashed = TRUE,
                                            !.sourceHash = h.hash]
    /\ UNCHANGED <<updVars, fsVars, bar, extVars>>

\* one iteration of the loop at lines 110-157
ApplyGBE_Candidate ==
    /\ app.pc = "loop"
    /\ app.i <= Len(app.targetFiles)
    /\ \E r \in ProcessCandidate(fs, PlatformConfig[app.platform],
                                 app.targetFiles[app.i], app.sourceHash,
                                 clock, app.homeOk) :
         /\ fs' = r.fs
         /\ app' = IF r.abort # nil
                   THEN AppReturn([app EXCEPT !.log = Append(@, r.entry)], r.abort)
                   ELSE [app EXCEPT !.i = @ + 1, !.log = Append(@, r.entry)]
    /\ UNCHANGED <<updVars, clock, bar, extVars>>

\* lines 159-160: the loop is over
ApplyGBE_Return ==
    /\ app.pc = "loop"
    /\ app.i > Len(app.targetFiles)
    /\ app' = AppReturn(app, nil)
    /\ UNCHANGED <<updVars, fsVars, bar, extVars>>

----------------------------------------------------------------------------
(* The directory tree under util.DownloadAndExtract: a path names a        *)
(* directory or a file with its bytes.  Paths are relative to one root     *)
(* whose existence is taken for granted.                                   *)

RECURSIVE NextSlash(_, _)
NextSlash(s, i) ==
    IF i > Len(s) THEN 0
    ELSE IF SubSeq(s, i, i) = "/" THEN i
    ELSE NextSlash(s, i + 1)

\* the pieces of s between slashes, from position start on
RECURSIVE SplitFrom(_, _)
SplitFrom(s, start) ==
    LET k == NextSlash(s, start)
    IN  IF k = 0 THEN << SubSeq(s, start, Len(s)) >>
        ELSE << SubSeq(s, start, k - 1) >> \o SplitFrom(s, k + 1)

\* filepath.Clean on the pieces of a relative path: empty pieces and "."
\* are dropped, ".." removes the piece before it or stays when there is none
RECURSIVE CleanParts(_, _)
CleanParts(parts, acc) ==
    IF parts = << >> THEN acc
    ELSE LET h == Head(parts)
         IN  IF h \in {"", "."} THEN CleanParts(Tail(parts), acc)
             ELSE IF h = ".." /\ acc # << >> /\ acc[Len(acc)] # ".."
             THEN CleanParts(Tail(parts), SubSeq(acc, 1, Len(acc) - 1))
             ELSE CleanParts(Tail(parts), Append(acc, h))

RECURSIVE JoinSlash(_)
JoinSlash(parts) ==
    IF Len(parts) = 1 THEN parts[1]
    ELSE parts[1] \o "/" \o JoinSlash(Tail(parts))

\* filepath.Clean
Clean(p) ==
    LET parts == CleanParts(SplitFrom(p, 1), << >>)
    IN  IF parts = << >> THEN "." ELSE JoinSlash(parts)

\* filepath.Join(dir, name) for a name that may hold "..", "." or slashes:
\* the joined path is cleaned
JoinClean(dir, name) == Clean(dir \o "/" \o name)

DirNode == [kind |-> "dir", data |-> ""]

FileNode(bytes) == [kind |-> "file", data |-> bytes]

IsDir(D, p) == p \in DOMAIN D /\ D[p].kind = "dir"

IsFile(D, p) == p \in DOMAIN D /\ D[p].kind = "file"

\* p lies below dir / is dir or lies below it
Under(p, dir) == HasPrefix(p, dir \o "/")

Inside(p, dir) == p = dir \/ Under(p, dir)

\* the directory in which p is an entry exists ("." is the root)
ParentOK(D, p) == Dir(p) = "." \/ IsDir(D, Dir(p))

Children(D, dir) == { p \in DOMAIN D : Dir(p) = dir }

Put(D, p, node) == [q \in DOMAIN D \cup {p} |-> IF q = p THEN node ELSE D[q]]

Without(D, gone) == [q \in DOMAIN D \ gone |-> D[q]]

\* what lies at and below dir
Subtree(D, dir) == [q \in { p \in DOMAIN D : Inside(p, dir) } |-> D[q]]

\* p and the directories above it
Ancestors(p) ==
    {p} \cup { SubSeq(p, 1, k - 1) : k \in { i \in 2..Len(p) : SubSeq(p, i, i) = "/" } }

(* The os primitives on the tree.  Each yields the set of its possible    *)
(* results: the error, the tree left behind, and whether the failure came *)
(* from the environment (fault) rather than from what the tree holds.     *)

Ok(D)          == [err |-> nil, disk |-> D, fault |-> FALSE]
Refused(e, D)  == [err |-> e, disk |-> D, fault |-> FALSE]
Faulted(e, D)  == [err |-> e, disk |-> D, fault |-> TRUE]

\* os.RemoveAll(dir): removes dir and what lies below it; a failing call
\* has removed none or some of it, children before their directory
RemoveAll(D, dir) ==
    LET all == { p \in DOMAIN D : Inside(p, dir) }
    IN  { Ok(Without(D, all)) }
        \cup { Faulted("os.RemoveAll", Without(D, gone)) :
                 gone \in { S \in SUBSET all :
                              /\ S # all \/ all = {}
                              /\ \A p \in S : \A q \in all : Under(q, p) => q \in S } }

\* os.MkdirAll(p): makes p and the missing directories above it; refused
\* when a file is in the way
MkdirAll(D, p) ==
    { Faulted("os.MkdirAll", D) }
    \cup (IF \E a \in Ancestors(p) : IsFile(D, a)
          THEN { Refused("not a directory", D) }
          ELSE { Ok([q \in DOMAIN D \cup Ancestors(p) |->
                       IF q \in DOMAIN D THEN D[q] ELSE DirNode]) })

\* os.OpenFile(p, O_CREATE|O_WRONLY|O_TRUNC): an empty file at p
OpenFile(D, p) ==
    { Faulted("os.OpenFile", D) }
    \cup (IF ~ParentOK(D, p) THEN { Refused("no such file or directory", D) }
          ELSE IF IsDir(D, p) THEN { Refused("is a directory", D) }
          ELSE { Ok(Put(D, p, FileNode(""))) })

\* io.Copy into the open file p: all the bytes, or an error after some
CopyInto(D, p, bytes) ==
    { Ok(Put(D, p, FileNode(bytes))) }
    \cup { Faulted("io.Copy", Put(D, p, FileNode(b))) : b \in Prefixes(bytes) }

\* The file names of the model in the byte order os.ReadDir sorts by
NameOrder ==
    << "a.txt", "bin.exe", "evil.txt", "lib", "old.txt", "pkg", "readme.txt",
       "release", "temp.7z", "x.dll", "x.so" >>

SortNames(S) == SelectSeq(NameOrder, LAMBDA n : n \in S)

\* os.ReadDir(dir): the entry names, sorted
ReadDir(D, dir) ==
    { [err |-> "os.ReadDir", names |-> << >>, fault |-> TRUE] }
    \cup (IF ~IsDir(D, dir)
          THEN { [err |-> "not a directory", names |-> << >>, fault |-> FALSE] }
          ELSE { [err |-> nil, fault |-> FALSE,
                  names |-> SortNames({ Base(p) : p \in Children(D, dir) })] })

\* os.Rename(old, new) on trees: a file replaces a file, an existing
\* directory is never replaced (os.Rename answers "file exists" before
\* calling rename(2)), everything below old moves along
DiskRename(D, old, new) ==
    { Faulted("os.Rename", D) }
    \cup (IF old \notin DOMAIN D \/ ~ParentOK(D, new)
          THEN { Refused("no such file or directory", D) }
          ELSE IF old = new THEN { Ok(D) }
          ELSE IF Under(new, old) THEN { Refused("invalid argument", D) }
          ELSE IF IsDir(D, new) THEN { Refused("file exists", D) }
          ELSE IF IsDir(D, old) /\ IsFile(D, new) THEN { Refused("not a directory", D) }
          ELSE LET moved == { p \in DOMAIN D : Inside(p, old) }
                   To(p) == new \o SubSeq(p, Len(old) + 1, Len(p))
                   rest  == Without(D, moved \cup {new})
               IN  { Ok([q \in DOMAIN rest \cup { To(p) : p \in moved } |->
                           IF q \in DOMAIN rest THEN rest[q]
                           ELSE D[CHOOSE p \in moved : To(p) = q]]) })

\* os.Remove(p): a file or an empty directory
Remove(D, p) ==
    { Faulted("os.Remove", D) }
    \cup (IF p \notin DOMAIN D THEN { Refused("no such file or directory", D) }
          ELSE IF IsDir(D, p) /\ Children(D, p) # {}
          THEN { Refused("directory not empty", D) }
          ELSE { Ok(Without(D, {p})) })

\* os.Stat(p) on the tree
DiskStat(D, p) ==
    (IF p \in DOMAIN D THEN {nil} ELSE {"not exist"}) \cup {"stat error"}

(* What the URLs serve.  A body is named by two letters; the tar and 7z    *)
(* decoders turn the bodies they understand into their entries.            *)

TarFile(name, bytes) == [Name |-> name, IsDir |-> FALSE, Data |-> bytes]
TarDir(name)         == [Name |-> name, IsDir |-> TRUE,  Data |-> ""]

Corrupt == [ok |-> FALSE, entries |-> << >>]
Entries(es) == [ok |-> TRUE, entries |-> es]

\* bzip2.NewReader + tar.NewReader over a body: the headers in stream order
TarEntries(body) ==
    CASE body = "T1" -> Entries(<< TarDir("pkg/"), TarFile("pkg/a.txt", "A1"),
                                   TarDir("pkg/lib/"), TarFile("pkg/lib/x.so", "X") >>)
      [] body = "T2" -> Entries(<< TarFile("./a.txt", "A1"), TarDir("lib/"),
                                   TarFile("lib/x.so", "X") >>)
      [] body = "T3" -> Entries(<< TarDir("pkg/"), TarFile("pkg/a.txt", "A1"),
                                   TarFile("pkg/pkg", "P") >>)
      [] body = "T4" -> Entries(<< TarFile("a.txt", "A1"), TarFile("../evil.txt", "E") >>)
      [] body = "T5" -> Entries(<< >>)
      [] body = "T6" -> Entries(<< TarFile("pkg/a.txt", "A1") >>)
      [] body = "T7" -> Entries(<< TarDir("pkg/") >>)
      [] OTHER -> Corrupt

\* what `7z x` finds in an archive file
SevenZEntries(body) ==
    CASE body = "Z1" -> Entries(<< TarFile("release/bin.exe", "B1"),
                                   TarFile("release/lib/x.dll", "X"),
                                   TarFile("readme.txt", "R") >>)
      [] body = "Z2" -> Entries(<< TarFile("bin.exe", "B1") >>)
      [] body = "Z3" -> Entries(<< TarFile("a.txt", "O"), TarFile("release/a.txt", "A1") >>)
      [] body = "Z4" -> Entries(<< TarFile("release/release", "P") >>)
      [] body = "Z5" -> Entries(<< TarFile("release", "F") >>)
      [] OTHER -> Corrupt

TarBodies    == {"T1", "T2", "T3", "T4", "T5", "T6", "T7"}
SevenZBodies == {"Z1", "Z2", "Z3", "Z4", "Z5"}

URLOf(body) == "https://dl/" \o body

\* the response body of http.Get(url)
Body(url) == SubSeq(url, Len("https://dl/") + 1, Len(url))

\* The calls made: each archive with its own format, one archive with the
\* other extractor, and one with a format the switch does not know
Requests ==
    { [url |-> URLOf(b), format |-> "tar.bz2"] : b \in TarBodies \cup {"Z2"} }
    \cup { [url |-> URLOf(b), format |-> "7z"] : b \in SevenZBodies }
    \cup { [url |-> URLOf("T2"), format |-> "zip"] }

ExtractDir == "cache/dest"

\* os.TempDir()
TempDir == "tmp"

\* filepath.Join(os.TempDir(), "temp.7z")
TempFile == JoinClean(TempDir, "temp.7z")

EmptyDisk == [p \in {} |-> DirNode]

NoTree == [known |-> FALSE]

\* `7z x archive -odestDir -y`: the first k entries written below destDir,
\* directories made as needed
RECURSIVE SevenZWrite(_, _, _, _)
SevenZWrite(D, destDir, entries, k) ==
    IF k = 0 THEN D
    ELSE LET D1 == SevenZWrite(D, destDir, entries, k - 1)
             p  == JoinClean(destDir, entries[k].Name)
         IN  [q \in DOMAIN D1 \cup Ancestors(p) |->
                 IF q = p THEN (IF entries[k].IsDir THEN DirNode
                                ELSE FileNode(entries[k].Data))
                 ELSE IF q \in DOMAIN D1 THEN D1[q] ELSE DirNode]

\* RunCmd(config.SevenZCommand, "x", tempFile, "-o"+destDir, "-y"): the
\* archive is unpacked, or the command fails having unpacked a part of it
SevenZ(D, archive, destDir) ==
    LET a == IF IsFile(D, archive) THEN SevenZEntries(D[archive].data) ELSE Corrupt
    IN  { Faulted("exec: 7z", D) }
        \cup (IF ~a.ok THEN { Refused("exit status 2", D) }
              ELSE { Ok(SevenZWrite(D, destDir, a.entries, Len(a.entries))) }
                   \cup { Faulted("exit status 2", SevenZWrite(D, destDir, a.entries, k)) :
                            k \in 0..(Len(a.entries) - 1) })

(* util.DownloadAndExtract, step by step.                                  *)

DaeIdle ==
    [pc |-> "idle", calls |-> 0, url |-> "", destDir |-> "", format |-> "",
     body |-> "", err |-> nil, faulted |-> FALSE,
     i |-> 1,                 \* the tar entry the loop is at
     nested |-> "",           \* the directory being emptied into destDir
     names |-> << >>, j |-> 1,   \* its entries and the one the loop is at
     tempCreated |-> FALSE,
     removeFailed |-> FALSE,  \* os.Remove(tempFile) was called and failed
     before |-> EmptyDisk,    \* the tree when the call began
     extracted |-> EmptyDisk, \* the tree when the entries had been written
     first |-> NoTree]        \* destDir as the first successful call left it

\* a return; the first nil return of a call in which nothing failed keeps
\* what destDir then holds
DaeReturn(d, e, D) ==
    [d EXCEPT !.pc = "returned", !.err = e,
              !.first = IF e = nil /\ ~d.faulted /\ ~d.first.known
                        THEN [known |-> TRUE, tree |-> Subtree(D, d.destDir)]
                        ELSE @]

DaeFault(d, r) == [d EXCEPT !.faulted = @ \/ r.fault]

\* lines 92-97: http.Get(url).  A destination is refreshed again and again
\* with the same arguments.
DownloadAndExtract_Call(url, destDir, format) ==
    /\ dae.pc \in {"idle", "returned"}
    /\ dae.calls < MaxExtracts
    /\ dae.calls > 0 => (url = dae.url /\ destDir = dae.destDir /\ format = dae.format)
    /\ LET d0 == [DaeIdle EXCEPT !.calls = dae.calls + 1, !.url = url,
                                 !.destDir = destDir, !.format = format,
                                 !.before = disk, !.first = dae.first]
       IN  \/ dae' = DaeReturn([d0 EXCEPT !.faulted = TRUE], "http.Get", disk)
           \/ dae' = [d0 EXCEPT !.pc = "removeAll", !.body = Body(url)]
    /\ UNCHANGED <<updVars, fsVars, bar, app, disk>>

\* Mutant: the old tree is not removed
DownloadAndExtract_RemoveAll_Skipped ==
    /\ dae.pc = "removeAll"
    /\ disk' = disk
    /\ dae' = [dae EXCEPT !.pc = "mkdirAll"]
    /\ UNCHANGED <<updVars, fsVars, bar, app>>

\* lines 99-101
DownloadAndExtract_RemoveAll ==
    /\ dae.pc = "removeAll"
    /\ \E r \in RemoveAll(disk, dae.destDir) :
         /\ disk' = r.disk
         /\ dae' = IF r.err # nil THEN DaeReturn(DaeFault(dae, r), r.err, r.disk)
                   ELSE [dae EXCEPT !.pc = "mkdirAll"]
    /\ UNCHANGED <<updVars, fsVars, bar, app>>

\* lines 102-106 and 199-201: the directory is made again, then the switch
\* on the format
DownloadAndExtract_MkdirAll ==
    /\ dae.pc = "mkdirAll"
    /\ \E r \in MkdirAll(disk, dae.destDir) :
         /\ disk' = r.disk
         /\ dae' = IF r.err # nil THEN DaeReturn(DaeFault(dae, r), r.err, r.disk)
                   ELSE IF dae.format = "tar.bz2" THEN [dae EXCEPT !.pc = "tarNext"]
                   ELSE IF dae.format = "7z" THEN [dae EXCEPT !.pc = "create"]
                   ELSE DaeReturn(dae, "unsupported archive format: " \o dae.format,
                                  r.disk)
    /\ UNCHANGED <<updVars, fsVars, bar, app>>

\* line 118: targetPath := filepath.Join(destDir, header.Name)
TarTarget(destDir, name) == JoinClean(destDir, name)

\* lines 110-134: one iteration of the loop over the tar entries
DownloadAndExtract_TarEntry ==
    /\ dae.pc = "tarNext"
    /\ LET t == TarEntries(dae.body)
       IN  IF ~t.ok
           THEN /\ dae' = DaeReturn(dae, "bzip2 data invalid", disk)
                /\ disk' = disk
           ELSE /\ dae.i <= Len(t.entries)
                /\ LET header     == t.entries[dae.i]
                       targetPath == TarTarget(dae.destDir, header.Name)
                       next       == [dae EXCEPT !.i = @ + 1]
                   IN  \/ \* tarReader.Next() fails
                          /\ dae' = DaeReturn([dae EXCEPT !.faulted = TRUE],
                                              "unexpected EOF", disk)
                          /\ disk' = disk
                       \/ /\ header.IsDir
                          /\ \E r \in MkdirAll(disk, targetPath) :
                               /\ disk' = r.disk
                               /\ dae' = IF r.err # nil
                                         THEN DaeReturn(DaeFault(dae, r), r.err, r.disk)
                                         ELSE next
                       \/ /\ ~header.IsDir
                          /\ \E o \in OpenFile(disk, targetPath) :
                               IF o.err # nil
                               THEN /\ disk' = o.disk
                                    /\ dae' = DaeReturn(DaeFault(dae, o), o.err, o.disk)
                               ELSE \E c \in CopyInto(o.disk, targetPath, header.Data) :
                                      /\ disk' = c.disk
                                      /\ dae' = IF c.err # nil
                                                THEN DaeReturn(DaeFault(dae, c), c.err, c.disk)
                                                ELSE next
    /\ UNCHANGED <<updVars, fsVars, bar, app>>

\* lines 137-149: the loop is over (io.EOF); destDir is listed and, when
\* its one entry is a directory, that directory is listed too
DownloadAndExtract_TarReadDir ==
    /\ dae.pc = "tarNext"
    /\ TarEntries(dae.body).ok
    /\ dae.i > Len(TarEntries(dae.body).entries)
    /\ LET d == [dae EXCEPT !.extracted = disk]
       IN  \E r \in ReadDir(disk, dae.destDir) :
             IF r.err # nil
             THEN dae' = DaeReturn(DaeFault(d, r),
                                   "failed to read destination directory", disk)
             ELSE IF Len(r.names) = 1 /\ IsDir(disk, Join(dae.destDir, r.names[1]))
             THEN LET nestedDirPath == Join(dae.destDir, r.names[1])
                  IN  \E n \in ReadDir(disk, nestedDirPath) :
                        dae' = IF n.err # nil
                               THEN DaeReturn(DaeFault(d, n),
                                              "failed to read nested directory", disk)
                               ELSE [d EXCEPT !.pc = "tarMove",
                                              !.nested = nestedDirPath,
                                              !.names = n.names, !.j = 1]
             ELSE dae' = DaeReturn(d, nil, disk)
    /\ UNCHANGED <<updVars, fsVars, bar, app, disk>>

\* lines 151-157: one entry of the nested directory is moved up
DownloadAndExtract_TarMove ==
    /\ dae.pc = "tarMove"
    /\ dae.j <= Len(dae.names)
    /\ LET oldPath == Join(dae.nested, dae.names[dae.j])
           newPath == Join(dae.destDir, dae.names[dae.j])
       IN  \E r \in DiskRename(disk, oldPath, newPath) :
             /\ disk' = r.disk
             /\ dae' = IF r.err # nil
                       THEN DaeReturn(DaeFault(dae, r), "failed to move", r.disk)
                       ELSE [dae EXCEPT !.j = @ + 1]
    /\ UNCHANGED <<updVars, fsVars, bar, app>>

\* lines 158-162 and 203: the emptied directory is removed
DownloadAndExtract_TarRemoveNested ==
    /\ dae.pc = "tarMove"
    /\ dae.j > Len(dae.names)
    /\ \E r \in Remove(disk, dae.nested) :
         /\ disk' = r.disk
         /\ dae' = IF r.err # nil
                   THEN DaeReturn(DaeFault(dae, r),
                                  "failed to remove empty nested directory", r.disk)
                   ELSE DaeReturn(dae, nil, r.disk)
    /\ UNCHANGED <<updVars, fsVars, bar, app>>

\* lines 165-169: os.Create(tempFile)
DownloadAndExtract_CreateTemp ==
    /\ dae.pc = "create"
    /\ \E r \in OpenFile(disk, TempFile) :
         /\ disk' = r.disk
         /\ dae' = IF r.err # nil THEN DaeReturn(DaeFault(dae, r), r.err, r.disk)
                   ELSE [dae EXCEPT !.pc = "copyTemp", !.tempCreated = TRUE]
    /\ UNCHANGED <<updVars, fsVars, bar, app>>

\* lines 170-174: io.Copy(outFile, resp.Body)
DownloadAndExtract_CopyTemp ==
    /\ dae.pc = "copyTemp"
    /\ \E r \in CopyInto(disk, TempFile, dae.body) :
         /\ disk' = r.disk
         /\ dae' = IF r.err # nil THEN DaeReturn(DaeFault(dae, r), r.err, r.disk)
                   ELSE [dae EXCEPT !.pc = "run7z"]
    /\ UNCHANGED <<updVars, fsVars, bar, app>>

\* lines 176-179: the extraction command; when it fails the temporary file
\* is removed (the result of os.Remove is not looked at) and the error
\* returned
DownloadAndExtract_RunCmd ==
    /\ dae.pc = "run7z"
    /\ \E r \in SevenZ(disk, TempFile, dae.destDir) :
         IF r.err # nil
         THEN \E m \in Remove(r.disk, TempFile) :
                /\ disk' = m.disk
                /\ dae' = DaeReturn([DaeFault(DaeFault(dae, r), m)
                                        EXCEPT !.removeFailed = m.err # nil],
                                    r.err, m.disk)
         ELSE /\ disk' = r.disk
              /\ dae' = [dae EXCEPT !.pc = "stat7z", !.extracted = r.disk]
    /\ UNCHANGED <<updVars, fsVars, bar, app>>

\* filepath.Join(destDir, "release")
ReleasePath(destDir) == Join(destDir, "release")

\* lines 182-187: os.Stat(releasePath); when it answers, the directory is
\* listed, otherwise the moving is skipped
DownloadAndExtract_StatRelease ==
    /\ dae.pc = "stat7z"
    /\ LET releasePath == ReleasePath(dae.destDir)
       IN  \E s \in DiskStat(disk, releasePath) :
             IF s = nil
             THEN \E r \in ReadDir(disk, releasePath) :
                    dae' = IF r.err # nil
                           THEN DaeReturn(DaeFault(dae, r), r.err, disk)
                           ELSE [dae EXCEPT !.pc = "move7z", !.nested = releasePath,
                                            !.names = r.names, !.j = 1]
             ELSE dae' = [dae EXCEPT !.pc = "removeTemp",
                                     !.faulted = @ \/ releasePath \in DOMAIN disk]
    /\ UNCHANGED <<updVars, fsVars, bar, app, disk>>

\* lines 188-192: one entry of release is moved up
DownloadAndExtract_MoveRelease ==
    /\ dae.pc = "move7z"
    /\ dae.j <= Len(dae.names)
    /\ \E r \in DiskRename(disk, Join(dae.nested, dae.names[dae.j]),
                                 Join(dae.destDir, dae.names[dae.j])) :
         /\ disk' = r.disk
         /\ dae' = IF r.err # nil THEN DaeReturn(DaeFault(dae, r), r.err, r.disk)
                   ELSE [dae EXCEPT !.j = @ + 1]
    /\ UNCHANGED <<updVars, fsVars, bar, app>>

\* lines 193-195: os.Remove(releasePath)
DownloadAndExtract_RemoveRelease ==
    /\ dae.pc = "move7z"
    /\ dae.j > Len(dae.names)
    /\ \E r \in Remove(disk, dae.nested) :
         /\ disk' = r.disk
         /\ dae' = IF r.err # nil THEN DaeReturn(DaeFault(dae, r), r.err, r.disk)
                   ELSE [dae EXCEPT !.pc = "removeTemp"]
    /\ UNCHANGED <<updVars, fsVars, bar, app>>

\* lines 198 and 203: os.Remove(tempFile), its result not looked at
DownloadAndExtract_RemoveTemp ==
    /\ dae.pc = "removeTemp"
    /\ \E r \in Remove(disk, TempFile) :
         /\ disk' = r.disk
         /\ dae' = DaeReturn([DaeFault(dae, r) EXCEPT !.removeFailed = r.err # nil],
                             nil, r.disk)
    /\ UNCHANGED <<updVars, fsVars, bar, app>>

----------------------------------------------------------------------------
(* Initial states and specifications.                                      *)

FreshCache ==
    /\ timestampFile = NoFile
    /\ linux_release = AbsentDir
    /\ win_release = AbsentDir
    /\ upd = UpdIdle

\* what a marker file found under the cache root may hold: what this
\* program writes, the feed's own text, or nothing
MarkerContents ==
    {NoFile, [exists |-> TRUE, data |-> ""]}
    \cup { [exists |-> TRUE, data |-> t] : t \in UpdatedAtTexts }
    \cup { [exists |-> TRUE, data |-> t] :
               t \in {"2024-01-01 00:00:00 +0000 UTC", "2024-02-01 00:00:00 +0000 UTC"} }

NoFiles ==
    /\ fs = EmptyFS
    /\ clock = 0
    /\ bar = BarIdle
    /\ app = AppIdle

NoExtraction ==
    /\ disk = EmptyDisk
    /\ dae = DaeIdle

InitUpdate == FreshCache /\ NoFiles /\ NoExtraction

InitMarker ==
    /\ timestampFile \in MarkerContents
    /\ linux_release = AbsentDir
    /\ win_release = AbsentDir
    /\ upd = UpdIdle
    /\ NoFiles
    /\ NoExtraction

NextUpdate == UpdateGBE

SpecUpdate == InitUpdate /\ [][NextUpdate]_vars

SpecMarker == InitMarker /\ [][NextUpdate]_vars

\* The fixture of util_test.go's TestBackupAndReplace: two sources in one
\* place, the destination present or not in another
ReplaceFixtures ==
    LET cache == WithFile(WithFile(EmptyFS, "cache/steam_api.dll", "AB"),
                          "cache/steamclient.dll", "CD")
    IN  { cache, WithFile(cache, "game/steam_api.dll", "xy") }

InitReplace ==
    /\ FreshCache
    /\ fs \in ReplaceFixtures
    /\ clock = 0
    /\ bar = BarIdle
    /\ app = AppIdle
    /\ NoExtraction

NextReplace ==
    \/ \E src \in SrcPaths, dest \in DestPaths : BackupAndReplace_Call(src, dest)
    \/ BackupAndReplace_Stat
    \/ BackupAndReplace_Rename
    \/ BackupAndReplace_Link
    \/ BackupAndReplace_CopyFile
    \/ Tick

SpecReplace == InitReplace /\ [][NextReplace]_vars

\* Game trees and caches ApplyGBE may find: targets of one platform in the
\* directories a and b, a companion beside the first, and a cache that
\* holds or lacks the source, the companion and the generator.
Among(Fs, p, contents, optional) ==
    UNION { (IF optional THEN {F} ELSE {}) \cup { WithFile(F, p, c) : c \in contents } :
            F \in Fs }

ApplyFixtures(cfg) ==
    LET g1 == Among({EmptyFS}, Join("a", cfg.Target), {"xy", "AB", "Ax"}, FALSE)
        g2 == Among(g1, Join("b", cfg.Target), {"xy", "AB"}, TRUE)
        g3 == Among(g2, Join("a", cfg.Additional), {"zz"}, TRUE)
        c1 == Among(g3, SourceFile(cfg), {"AB"}, TRUE)
        c2 == Among(c1, AdditionalSource(cfg), {"CD"}, TRUE)
    IN  Among(c2, GeneratorPath(cfg), {"gen"}, TRUE)

\* a 32-bit Windows game with everything in place
FullFixture(cfg) ==
    LET g1 == WithFile(EmptyFS, Join("a", cfg.Target), "xy")
        g2 == WithFile(g1, Join("b", cfg.Target), "AB")
        g3 == WithFile(g2, Join("a", cfg.Additional), "zz")
        c1 == WithFile(g3, SourceFile(cfg), "AB")
        c2 == WithFile(c1, AdditionalSource(cfg), "CD")
    IN  WithFile(c2, GeneratorPath(cfg), "gen")

InitApply ==
    /\ FreshCache
    /\ fs \in ApplyFixtures(PlatformConfig["linux"])
                 \cup {FullFixture(PlatformConfig["win32"])}
    /\ clock = 0
    /\ bar = BarIdle
    /\ app = AppIdle
    /\ NoExtraction

NextApply ==
    \/ \E platform \in PlatformArgs : ApplyGBE_Call(platform)
    \/ ApplyGBE_Source
    \/ ApplyGBE_Candidate
    \/ ApplyGBE_Return
    \/ Tick

SpecApply == InitApply /\ [][NextApply]_vars

\* The trees a call may find: the cache and the temporary directory exist;
\* destDir is absent, empty, or holds what an earlier tool left there
ExtractFixtures ==
    LET base  == Put(Put(EmptyDisk, "cache", DirNode), TempDir, DirNode)
        empty == Put(base, ExtractDir, DirNode)
        stale == Put(Put(empty, Join(ExtractDir, "a.txt"), FileNode("o")),
                     Join(ExtractDir, "old.txt"), FileNode("o"))
    IN  { base, empty, stale }

InitExtract ==
    /\ FreshCache
    /\ NoFiles
    /\ disk \in ExtractFixtures
    /\ dae = DaeIdle

NextExtract ==
    \/ \E q \in Requests : DownloadAndExtract_Call(q.url, ExtractDir, q.format)
    \/ DownloadAndExtract_RemoveAll
    \/ DownloadAndExtract_MkdirAll
    \/ DownloadAndExtract_TarEntry
    \/ DownloadAndExtract_TarReadDir
    \/ DownloadAndExtract_TarMove
    \/ DownloadAndExtract_TarRemoveNested
    \/ DownloadAndExtract_CreateTemp
    \/ DownloadAndExtract_CopyTemp
    \/ DownloadAndExtract_RunCmd
    \/ DownloadAndExtract_StatRelease
    \/ DownloadAndExtract_MoveRelease
    \/ DownloadAndExtract_RemoveRelease
    \/ DownloadAndExtract_RemoveTemp

SpecExtract == InitExtract /\ [][NextExtract]_vars

----------------------------------------------------------------------------
(* Properties of github.UpdateGBE.                                         *)

UpdateLeftCacheAlone ==
    /\ timestampFile = upd.before.timestampFile
    /\ linux_release = upd.before.linux_release
    /\ win_release = upd.before.win_release

\* C1: the marker file differs from what it was when the run began only
\* after both DownloadAndExtract calls of that run have returned nil; while
\* either has failed or has not been reached the marker is as it was.
C1_MarkerOnlyAfterBothExtracted ==
    (upd.pc # "idle" /\ timestampFile # upd.before.timestampFile)
        => (upd.linuxOk /\ upd.winOk)

\* C1 witness: a second run extracts the Linux archive, fails on the Windows
\* archive and returns with the marker of the first run still in place.
C1_Witness ==
    /\ upd.pc = "returned"
    /\ upd.linuxOk /\ ~upd.winOk /\ upd.downloads = 2
    /\ upd.before.timestampFile.exists
    /\ timestampFile = upd.before.timestampFile

ScenarioFeedText == "2024-01-01T00:00:00Z"

\* C9 as stated: with updated_at "2024-01-01T00:00:00Z" in the feed and a
\* marker file holding that same string, the run downloads nothing, changes
\* nothing under the cache root and returns nil.
C9_SameTextIsUpToDate ==
    (/\ upd.pc = "returned"
     /\ upd.feedText = ScenarioFeedText
     /\ upd.readOk
     /\ upd.before.timestampFile = [exists |-> TRUE, data |-> ScenarioFeedText])
        => (upd.downloads = 0 /\ UpdateLeftCacheAlone /\ upd.err = nil)

\* C9 amended: with updated_at "2024-01-01T00:00:00Z" in the feed and a
\* readable marker file holding "2024-01-01 00:00:00 +0000 UTC", the form
\* UpdatedAt.String() gives that time, the run downloads nothing, changes
\* nothing under the cache root and returns nil.
C9_CanonicalTextIsUpToDate ==
    (/\ upd.pc = "returned"
     /\ upd.feedText = ScenarioFeedText
     /\ upd.readOk
     /\ upd.before.timestampFile =
            [exists |-> TRUE, data |-> "2024-01-01 00:00:00 +0000 UTC"])
        => (upd.downloads = 0 /\ UpdateLeftCacheAlone /\ upd.err = nil)

\* C9 witness: such a run has returned.
C9_Witness ==
    /\ upd.pc = "returned"
    /\ upd.feedText = ScenarioFeedText
    /\ upd.readOk
    /\ upd.before.timestampFile =
           [exists |-> TRUE, data |-> "2024-01-01 00:00:00 +0000 UTC"]
    /\ upd.downloads = 0
    /\ upd.err = nil

\* C10: whenever a run returns a download-URL-not-found error, no
\* extraction has started: nothing was downloaded and linux_release and
\* win_release are as they were when the run began.
C10_MissingAssetFailsBeforeExtraction ==
    (/\ upd.pc = "returned"
     /\ upd.err \in {"failed to find Linux download URL",
                     "failed to find Windows download URL"})
        => (/\ upd.downloads = 0
            /\ linux_release = upd.before.linux_release
            /\ win_release = upd.before.win_release)

----------------------------------------------------------------------------
(* Properties of util.BackupAndReplace.                                    *)

DestExisted == Exists(bar.before, bar.dest)

CallBackupPath == BackupPath(bar.dest, bar.timestamp)

\* the backup of this call exists and holds what dest held before the call
BackupKept ==
    /\ Exists(fs, CallBackupPath)
    /\ ReadFile(fs, CallBackupPath) = ReadFile(bar.before, bar.dest)

\* dest exists and holds what src holds, which is what src held before
DestHoldsSrc ==
    /\ Exists(fs, bar.dest)
    /\ Exists(fs, bar.src)
    /\ ReadFile(fs, bar.dest) = ReadFile(fs, bar.src)
    /\ ReadFile(fs, bar.src) = ReadFile(bar.before, bar.src)

\* C2: for a dest that existed, the hard link and the copy are attempted
\* only once dest has been renamed to the backup path, and a call in which
\* both the link and the copy failed returns an error with the backup
\* holding dest's bytes from before the call.
C2_BackupBeforeSubstitution ==
    /\ (bar.pc \in {"link", "copy"} /\ DestExisted)
          => (BackupKept /\ ~Exists(fs, bar.dest))
    /\ (bar.pc = "returned" /\ DestExisted /\ bar.linkFailed /\ bar.copyFailed)
          => (bar.err # nil /\ BackupKept)

\* C2 witness: a call on an existing dest has returned after both the link
\* and the copy failed.
C2_Witness ==
    /\ bar.pc = "returned"
    /\ DestExisted
    /\ bar.linkFailed /\ bar.copyFailed
    /\ bar.err # nil

\* C3 as stated: after a successful call on a dest that existed, exactly
\* one file matches dest.<timestamp>.ORIGINAL, it holds dest's bytes from
\* before the call, and dest holds src's bytes.
C3_ExactlyOneBackup ==
    (bar.pc = "returned" /\ bar.err = nil /\ DestExisted)
        => (/\ Cardinality(Backups(fs, bar.dest)) = 1
            /\ BackupKept
            /\ DestHoldsSrc)

\* C3 amended: after a successful call on a dest that existed, the file
\* dest.<timestamp of the call>.ORIGINAL exists and holds dest's bytes from
\* before the call, dest holds src's bytes, and the files matching
\* dest.*.ORIGINAL are that file and the backups that were there before
\* the call (so exactly one when there was none).
C3_BackupOfThisCall ==
    (bar.pc = "returned" /\ bar.err = nil /\ DestExisted)
        => (/\ BackupKept
            /\ DestHoldsSrc
            /\ Backups(fs, bar.dest)
                  = Backups(bar.before, bar.dest) \cup {CallBackupPath})

\* C3 witness: a successful second replacement of the same dest, a backup
\* of the first one being there already.
C3_Witness ==
    /\ bar.pc = "returned" /\ bar.err = nil /\ DestExisted
    /\ Cardinality(Backups(bar.before, bar.dest)) = 1
    /\ Cardinality(Backups(fs, bar.dest)) = 2

BackupsUntouched ==
    /\ Backups(fs, bar.dest) = Backups(bar.before, bar.dest)
    /\ \A p \in Backups(fs, bar.dest) :
          ReadFile(fs, p) = ReadFile(bar.before, p)

\* C4 as stated: a call on a dest that did not exist creates no backup,
\* returns no error and leaves dest holding src's bytes.
C4_FreshDestAlwaysInstalled ==
    (bar.pc = "returned" /\ ~DestExisted)
        => (BackupsUntouched /\ bar.err = nil /\ DestHoldsSrc)

\* C4 amended: a call on a dest that did not exist creates no backup; it
\* returns an error exactly when the stat of dest fails or both the hard
\* link and the copy fail, and when it returns no error dest holds src's
\* bytes.
C4_FreshDestInstalledUnlessIOFails ==
    (bar.pc = "returned" /\ ~DestExisted)
        => (/\ BackupsUntouched
            /\ (bar.err # nil) <=> (bar.statFailed \/ (bar.linkFailed /\ bar.copyFailed))
            /\ (bar.err = nil => DestHoldsSrc))

\* C4 witness: dest did not exist, the link failed, the copy installed it.
C4_Witness ==
    /\ bar.pc = "returned" /\ ~DestExisted
    /\ bar.linkFailed /\ bar.err = nil
    /\ Exists(fs, bar.dest)

\* C5: a backup file, once created, stays and keeps its bytes over every
\* step of every later call.
C5_BackupsKeepTheirBytes ==
    [][\A p \in DOMAIN fs.names :
          HasSuffix(p, ".ORIGINAL")
             => (p \in DOMAIN fs'.names /\ ReadFile(fs', p) = ReadFile(fs, p))]_vars

----------------------------------------------------------------------------
(* Properties of gbe.ApplyGBE.                                             *)

Candidate == app.targetFiles[app.i]

InLoop == app.pc = "loop" /\ app.i <= Len(app.targetFiles)

\* C6: a step of the loop on a candidate whose digest equals the source's
\* leaves every file as it was (no backup, no replacement, no companion
\* touched), runs no generator, and goes on to the next candidate; and the
\* loop never ends in an error.
C6_UpToDateCandidateSkipped ==
    [][/\ (InLoop /\ Exists(fs, Candidate)
             /\ MD4(ReadFile(fs, Candidate)) = app.sourceHash)
          => (/\ fs' = fs
              /\ app' # app =>
                   (/\ app'.pc = "loop" /\ app'.i = app.i + 1
                    /\ app'.log[Len(app'.log)].file = Candidate
                    /\ app'.log[Len(app'.log)].outcome \in {"up-to-date", "hash error"}
                    /\ app'.log[Len(app'.log)].companion = "untouched"
                    /\ app'.log[Len(app'.log)].generator = "not run"))
       /\ (app.pc = "loop" /\ app'.pc = "returned") => app'.err = nil]_vars

\* C6 witness: a run that skipped an up-to-date candidate and replaced
\* another has returned nil.
C6_Witness ==
    /\ app.pc = "returned" /\ app.err = nil
    /\ \E i \in DOMAIN app.log : app.log[i].outcome = "up-to-date"
    /\ \E j \in DOMAIN app.log : app.log[j].outcome = "replaced"

\* C7: a call with a platform that is no key of PlatformConfig returns an
\* error naming every key, with every file as it was and no candidate
\* processed.
C7_UnknownPlatform ==
    (app.pc = "returned" /\ app.platform \notin DOMAIN PlatformConfig)
        => (/\ app.err # nil
            /\ \A k \in DOMAIN PlatformConfig : Contains(app.err, k)
            /\ fs = app.before
            /\ app.log = << >>)

\* C7 witness: ApplyGBE("macos") has returned.
C7_Witness ==
    /\ app.pc = "returned"
    /\ app.platform = "macos"
    /\ Contains(app.err, "invalid platform: 'macos'")

\* C8: once the source digest is computed, the call returns nil with every
\* collected candidate processed, whatever failed on any of them.
C8_FailuresDoNotStopTheLoop ==
    (app.pc = "returned" /\ app.hashed)
        => (/\ app.err = nil
            /\ Len(app.log) = Len(app.targetFiles)
            /\ \A i \in DOMAIN app.log : app.log[i].file = app.targetFiles[i])

\* C8 witness: the first candidate's replacement failed, the second was
\* replaced although its companion and its generator failed.
C8_Witness ==
    /\ app.pc = "returned"
    /\ Len(app.log) = 2
    /\ app.log[1].outcome = "replace failed"
    /\ app.log[2].outcome = "replaced"
    /\ app.log[2].companion = "failed"
    /\ app.log[2].generator = "failed"

----------------------------------------------------------------------------
(* Further properties of github.UpdateGBE.                                 *)

\* C11 as stated: a run whose release notes failed to render does not stop
\* there: it goes on to the archive steps, so it ends having attempted a
\* download or with the error of a later step.
C11_RenderFailureDoesNotAbort ==
    (upd.pc = "returned" /\ upd.renderFailed)
        => (upd.downloads >= 1 \/ upd.err # nil)

\* A run that follows, with the same updated_at text in the feed, a run
\* that extracted both archives and wrote the marker, and that could read
\* the marker.
FollowsCompletedRun ==
    /\ upd.pc = "returned"
    /\ upd.prev.wrote
    /\ upd.prev.feedText = upd.feedText
    /\ upd.readOk

\* C17: a run that follows a completed run against the same updated_at
\* reads a marker equal to UpdatedAt.String(), downloads nothing, leaves
\* linux_release, win_release and the marker as they were and returns nil.
C17_MarkerRoundTrip ==
    FollowsCompletedRun
        => (/\ upd.before.timestampFile
                  = [exists |-> TRUE, data |-> TimeString(upd.release.UpdatedAt)]
            /\ upd.downloads = 0
            /\ UpdateLeftCacheAlone
            /\ upd.err = nil)

\* C17 witness: such a second run has returned, both directories holding
\* the trees the first run extracted.
C17_Witness ==
    /\ FollowsCompletedRun
    /\ upd.runs = 2
    /\ linux_release.tree = "full" /\ win_release.tree = "full"

\* C18 as stated: between runs, a marker holding UpdatedAt.String() of the
\* release updated at T means that linux_release and win_release hold the
\* completely extracted archives of that release.
C18_MarkerMeansCacheComplete ==
    upd.pc \in {"idle", "returned"}
        => \A T \in UpdatedAtTexts :
              timestampFile = [exists |-> TRUE, data |-> TimeString(UnmarshalTime(T))]
                 => (/\ linux_release = FullDir(AssetURL(T, "emu-linux-release.tar.bz2"))
                     /\ win_release = FullDir(AssetURL(T, "emu-win-release.7z")))

----------------------------------------------------------------------------
(* Further properties of gbe.ApplyGBE.                                     *)

\* C19 as stated: when ApplyGBE returns after its walk, every candidate the
\* walk collected is still a file, holding the bytes it had before the call
\* or the bytes of the source, whichever steps failed for it.
C19_EveryCandidateStillExists ==
    (app.pc = "returned" /\ app.hashed)
        => \A i \in DOMAIN app.targetFiles :
              LET file == app.targetFiles[i]
              IN  /\ Exists(fs, file)
                  /\ ReadFile(fs, file)
                       \in { ReadFile(app.before, file),
                             ReadFile(app.before,
                                      SourceFile(PlatformConfig[app.platform])) }

----------------------------------------------------------------------------
(* Properties of util.DownloadAndExtract.                                  *)

\* the entries of the archive the call was given
ArchiveEntries ==
    IF dae.format = "tar.bz2" THEN TarEntries(dae.body).entries
    ELSE SevenZEntries(dae.body).entries

\* a call has returned nil and none of its system calls failed
ExtractSucceeded ==
    dae.pc = "returned" /\ dae.err = nil /\ ~dae.faulted

\* the files below destDir that are as they were before the call
Survivors ==
    { p \in DOMAIN disk \cap DOMAIN dae.before :
        Under(p, dae.destDir) /\ IsFile(disk, p) /\ disk[p] = dae.before[p] }

ExtractedTop == Children(dae.extracted, dae.destDir)

\* destDir holds exactly what lay below the directory w when the entries
\* had been written, one level up
HoistedFrom(w) ==
    LET Up(q) == dae.destDir \o SubSeq(q, Len(w) + 1, Len(q))
        below == { q \in DOMAIN dae.extracted : Under(q, w) }
    IN  /\ { p \in DOMAIN disk : Under(p, dae.destDir) } = { Up(q) : q \in below }
        /\ \A q \in below : disk[Up(q)] = dae.extracted[q]

\* C13 as stated: a tar.bz2 call in which no system call failed and which,
\* its entries written, found a directory W as the only entry of destDir
\* returns nil with destDir holding exactly the former children of W, with
\* their names and contents, and no W; whatever the children are called.
C13_WrapperAlwaysHoisted ==
    (/\ dae.pc = "returned" /\ dae.format = "tar.bz2" /\ ~dae.faulted
     /\ Cardinality(ExtractedTop) = 1
     /\ \A w \in ExtractedTop : IsDir(dae.extracted, w))
        => (/\ dae.err = nil
            /\ \A w \in ExtractedTop : HoistedFrom(w))

\* C14 as stated: a 7z call in which no system call failed and whose
\* extraction left a directory release directly under destDir ends with
\* every former child of release directly under destDir, contents intact,
\* with release removed, and with every other entry the extraction placed
\* under destDir still there with its own contents.
C14_ReleaseHoistedOthersKept ==
    (/\ dae.pc = "returned" /\ dae.format = "7z" /\ ~dae.faulted
     /\ IsDir(dae.extracted, ReleasePath(dae.destDir)))
        => LET release == ReleasePath(dae.destDir)
               Up(q)   == dae.destDir \o SubSeq(q, Len(release) + 1, Len(q))
           IN  /\ \A q \in DOMAIN dae.extracted :
                     Under(q, release)
                        => (Up(q) \in DOMAIN disk /\ disk[Up(q)] = dae.extracted[q])
               /\ release \notin DOMAIN disk
               /\ \A p \in DOMAIN dae.extracted :
                     (Under(p, dae.destDir) /\ ~Inside(p, release))
                        => (p \in DOMAIN disk /\ disk[p] = dae.extracted[p])

\* C15 as stated: when a 7z call returns after os.Create made the temporary
\* file, on whichever path, the temporary file is gone (unless the
\* os.Remove that was to remove it failed).
C15_TempFileAlwaysRemoved ==
    (/\ dae.pc = "returned" /\ dae.format = "7z"
     /\ dae.tempCreated /\ ~dae.removeFailed)
        => TempFile \notin DOMAIN disk

\* C16 as stated: a call that returns the unsupported-format error has
\* neither deleted nor recreated destDir: what destDir held before the
\* call is there unchanged.
C16_UnsupportedFormatFailsFast ==
    (dae.pc = "returned" /\ HasPrefix(dae.err, "unsupported archive format"))
        => Subtree(disk, dae.destDir) = Subtree(dae.before, dae.destDir)

\* C20 as stated: during and after a tar.bz2 call, every path that is new
\* or differs from what it was when the call began lies inside destDir.
C20_TarStaysInsideDestDir ==
    (dae.pc # "idle" /\ dae.format = "tar.bz2")
        => \A p \in DOMAIN disk :
              (p \notin DOMAIN dae.before \/ disk[p] # dae.before[p])
                 => Inside(p, dae.destDir)

====
